---- MODULE Spec2Model ----
(***************************************************************************)
(* Model of scripts/add_verification_status.py: the path normaliser        *)
(* (normalize_path), the identity index builder                            *)
(* (build_verification_lookup), the status resolver                        *)
(* (find_verification_status) and the enrichment pass (process_graph).     *)
(*                                                                         *)
(* Strings are sequences of tokens: "/", "src", "file:" and one-letter     *)
(* names such as "a", "b", "x", "y", "f", "g".  No token is a substring of *)
(* another and none starts inside another, so substring tests and searches *)
(* on the token sequences are those of the Python strings they spell.      *)
(*                                                                         *)
(* Three specifications run the pass: Spec over one-node graphs and        *)
(* reports of a pool of records, SpecE2E over one record and one node that *)
(* differ in the directories before src, SpecGraph over graphs of several  *)
(* nodes.  SpecNorm applies the normaliser alone, twice.  SpecTwice runs   *)
(* the pass again on the graph it wrote.                                   *)
(***************************************************************************)
EXTENDS Integers, Sequences, FiniteSets, TLC

VARIABLES
    path, once, twice, npc,     \* the normaliser applied to one path, then to its result
    report, nodes,              \* the two loaded JSON documents
    lookup, by_name,            \* the index under construction / built
    pc,                         \* position of process_graph
    pending, stats,             \* nodes not yet visited, the caller's counters
    output                      \* the file at output_path

normVars == <<path, once, twice, npc>>
passVars == <<report, nodes, lookup, by_name, pc, pending, stats, output>>
vars == <<path, once, twice, npc, report, nodes, lookup, by_name, pc, pending, stats,
          output>>

----------------------------------------------------------------------------
(* Bounds *)

\* longest path fed to the normaliser on its own
MaxPathLen == 7

----------------------------------------------------------------------------
(* Python values *)

\* None (JSON null) where a string is expected; "None" is no token of a string
None == <<"None">>
\* a key that the JSON object does not have
Missing == <<"Missing">>
\* None where an integer is expected (an integer n is <<n>>)
NoLine == <<>>
\* None as the resolver's return value
NoStatus == "None"

\* dict.get(key, default) on a value that is Missing when the key is absent
Get(v, default) == IF v = Missing THEN default ELSE v

\* Python truthiness of an optional string: None and "" are falsy
Truthy(s) == s # None /\ s # <<>>

----------------------------------------------------------------------------
(* str operations used by normalize_path *)

Slash == "/"
Scheme == <<"file:", "/", "/">>
SrcAnchor == <<"/", "src", "/">>

\* s[i:] with a 1-based i
From(s, i) == SubSeq(s, i, Len(s))

\* pat occurs in s at position i
OccursAt(s, pat, i) ==
    /\ i >= 1
    /\ i + Len(pat) - 1 <= Len(s)
    /\ SubSeq(s, i, i + Len(pat) - 1) = pat

\* pat in s
Contains(s, pat) == \E i \in 1..(Len(s) + 1) : OccursAt(s, pat, i)

\* s.find(pat), 1-based, for a pat that occurs in s
Find(s, pat) ==
    CHOOSE i \in 1..(Len(s) + 1) :
        /\ OccursAt(s, pat, i)
        /\ \A j \in 1..(i - 1) : ~OccursAt(s, pat, j)

\* s.replace(pat, ""): the non-overlapping occurrences, left to right, one sweep
RECURSIVE Remove(_, _)
Remove(s, pat) ==
    IF Len(s) < Len(pat) THEN s
    ELSE IF OccursAt(s, pat, 1) THEN Remove(From(s, Len(pat) + 1), pat)
    ELSE <<Head(s)>> \o Remove(Tail(s), pat)

\* s.split("/"): the sequence of segments, each a string
RECURSIVE Split(_)
Split(s) ==
    IF ~Contains(s, <<Slash>>) THEN <<s>>
    ELSE LET i == Find(s, <<Slash>>)
         IN  <<SubSeq(s, 1, i - 1)>> \o Split(From(s, i + 1))

\* "/".join(parts)
RECURSIVE Join(_)
Join(parts) ==
    IF Len(parts) = 0 THEN <<>>
    ELSE IF Len(parts) = 1 THEN parts[1]
    ELSE parts[1] \o <<Slash>> \o Join(Tail(parts))

\* normalize_path without the "/src/" search and the segment scan
normalize_path_raw(p) == Remove(p, Scheme)

normalize_path(p) ==
    LET q == Remove(p, Scheme)
    IN  IF Contains(q, SrcAnchor)
        THEN From(q, Find(q, SrcAnchor) + 1)
        ELSE LET parts == Split(q)
                 hits == {i \in 1..Len(parts) : parts[i] = <<"src">>}
             IN  IF hits # {}
                 THEN Join(From(parts, CHOOSE i \in hits : \A j \in hits : i <= j))
                 ELSE q

----------------------------------------------------------------------------
(* The normaliser on its own: every path of at most MaxPathLen tokens *)

PathChars == {"/", "src", "file:", "a"}

RECURSIVE StringsUpTo(_, _)
StringsUpTo(chars, n) ==
    IF n = 0 THEN {<<>>}
    ELSE LET shorter == StringsUpTo(chars, n - 1)
         IN  shorter \cup {Append(s, c) : s \in {t \in shorter : Len(t) = n - 1}, c \in chars}

PassIdle ==
    /\ report = <<>> /\ nodes = <<>> /\ lookup = <<>> /\ by_name = <<>>
    /\ pc = "idle" /\ pending = {} /\ stats = <<>>
    /\ output = [written |-> FALSE, text |-> <<>>]

NormInit ==
    /\ path \in StringsUpTo(PathChars, MaxPathLen)
    /\ once = None /\ twice = None
    /\ npc = "start"
    /\ PassIdle

Normalize ==
    /\ npc = "start"
    /\ once' = normalize_path(path)
    /\ npc' = "once"
    /\ UNCHANGED <<path, twice>>
    /\ UNCHANGED passVars

NormalizeAgain ==
    /\ npc = "once"
    /\ twice' = normalize_path(once)
    /\ npc' = "twice"
    /\ UNCHANGED <<path, once>>
    /\ UNCHANGED passVars

NormNext == Normalize \/ NormalizeAgain

SpecNorm == NormInit /\ [][NormNext]_vars

\* the segments of a path as written (no scheme stripping)
Segments(p) == Split(p)

\* the path from its first segment equal to src onward
FromFirstSrc(p) ==
    LET parts == Segments(p)
        i == CHOOSE k \in 1..Len(parts) :
                 /\ parts[k] = <<"src">>
                 /\ \A j \in 1..(k - 1) : parts[j] # <<"src">>
    IN  Join(From(parts, i))

HasSrcSegment(p) == \E k \in 1..Len(Segments(p)) : Segments(p)[k] = <<"src">>

\* C4: normalising a normalised path changes nothing:
\* normalize_path(normalize_path(p)) = normalize_path(p) for every path p.
C4_Idempotent == npc = "twice" => twice = once

\* C5: a path with a segment equal to src is normalised to the path from its
\* first such segment onward, everything before it discarded.
C5_AnchorCollapse ==
    (npc # "start" /\ HasSrcSegment(path)) => once = FromFirstSrc(path)

----------------------------------------------------------------------------
(* Python dicts: a dict is the sequence of its items in insertion order *)

DictHas(d, k) == \E i \in 1..Len(d) : d[i].key = k

DictGet(d, k) == d[CHOOSE i \in 1..Len(d) : d[i].key = k].val

\* d[k] = v: a new key goes last, an existing key keeps its place
DictSet(d, k, v) ==
    IF DictHas(d, k)
    THEN [i \in 1..Len(d) |-> IF d[i].key = k THEN [key |-> k, val |-> v] ELSE d[i]]
    ELSE Append(d, [key |-> k, val |-> v])

----------------------------------------------------------------------------
(* build_verification_lookup *)

\* status_mapping, in its iteration order
CategoryKeys == <<"verified_functions", "failed_functions", "unverified_functions">>

status_mapping(key) ==
    CASE key = "verified_functions" -> "verified"
      [] key = "failed_functions" -> "failed"
      [] key = "unverified_functions" -> "unverified"

Statuses == {"verified", "failed", "unverified"}

\* func.get("code-text", {}).get("lines-start")
LinesStart(func) == IF func.code_text = "dict" THEN func.lines_start ELSE NoLine

\* the loop body raises AttributeError: None.replace in normalize_path, or
\* None.get on a null code-text
RecordRaises(func) == func.code_path = None \/ func.code_text = "null"

\* the loop body with the pair key overwritten by every record
AddRecordOverwrite(index, func, status) ==
    LET display_name == Get(func.display_name, <<>>)
        normalized_path == normalize_path(Get(func.code_path, <<>>))
        lines_start == LinesStart(func)
        l1 == DictSet(index.lookup, <<display_name, normalized_path, lines_start>>, status)
        l2 == DictSet(l1, <<display_name, normalized_path>>, status)
        old == IF DictHas(index.by_name, display_name)
               THEN DictGet(index.by_name, display_name) ELSE <<>>
        entry == [path |-> normalized_path, status |-> status, lines_start |-> lines_start]
    IN  [lookup |-> l2,
         by_name |-> DictSet(index.by_name, display_name, Append(old, entry)),
         raised |-> FALSE]

\* the loop body with a triple key that keeps its first outcome
AddRecordKeepFirst(index, func, status) ==
    LET display_name == Get(func.display_name, <<>>)
        normalized_path == normalize_path(Get(func.code_path, <<>>))
        lines_start == LinesStart(func)
        primary_key == <<display_name, normalized_path, lines_start>>
        secondary_key == <<display_name, normalized_path>>
        l1 == IF ~DictHas(index.lookup, primary_key)
              THEN DictSet(index.lookup, primary_key, status) ELSE index.lookup
        l2 == IF ~DictHas(l1, secondary_key) THEN DictSet(l1, secondary_key, status) ELSE l1
        old == IF DictHas(index.by_name, display_name)
               THEN DictGet(index.by_name, display_name) ELSE <<>>
        entry == [path |-> normalized_path, status |-> status, lines_start |-> lines_start]
    IN  [lookup |-> l2,
         by_name |-> DictSet(index.by_name, display_name, Append(old, entry)),
         raised |-> FALSE]

\* the loop body with a by_name list that holds an entry once only
AddRecordOnce(index, func, status) ==
    LET display_name == Get(func.display_name, <<>>)
        normalized_path == normalize_path(Get(func.code_path, <<>>))
        lines_start == LinesStart(func)
        primary_key == <<display_name, normalized_path, lines_start>>
        secondary_key == <<display_name, normalized_path>>
        l1 == DictSet(index.lookup, primary_key, status)
        l2 == IF ~DictHas(l1, secondary_key) THEN DictSet(l1, secondary_key, status) ELSE l1
        old == IF DictHas(index.by_name, display_name)
               THEN DictGet(index.by_name, display_name) ELSE <<>>
        entry == [path |-> normalized_path, status |-> status, lines_start |-> lines_start]
    IN  [lookup |-> l2,
         by_name |-> IF \E h \in 1..Len(old) : old[h] = entry
                     THEN index.by_name
                     ELSE DictSet(index.by_name, display_name, Append(old, entry)),
         raised |-> FALSE]

\* One iteration of the inner loop over a record that does not raise.  The
\* by_name entry is kept without lines_end, which nothing reads.
AddRecord(index, func, status) ==
    LET display_name == Get(func.display_name, <<>>)
        normalized_path == normalize_path(Get(func.code_path, <<>>))
        lines_start == LinesStart(func)
        primary_key == <<display_name, normalized_path, lines_start>>
        secondary_key == <<display_name, normalized_path>>
        l1 == DictSet(index.lookup, primary_key, status)
        l2 == IF ~DictHas(l1, secondary_key) THEN DictSet(l1, secondary_key, status) ELSE l1
        old == IF DictHas(index.by_name, display_name)
               THEN DictGet(index.by_name, display_name) ELSE <<>>
        entry == [path |-> normalized_path, status |-> status, lines_start |-> lines_start]
    IN  [lookup |-> l2,
         by_name |-> DictSet(index.by_name, display_name, Append(old, entry)),
         raised |-> FALSE]

\* the inner loop over one category's list; an exception ends everything
RECURSIVE AddFunctions(_, _, _)
AddFunctions(index, functions, status) ==
    IF index.raised \/ Len(functions) = 0 THEN index
    ELSE IF RecordRaises(Head(functions)) THEN [index EXCEPT !.raised = TRUE]
    ELSE AddFunctions(AddRecord(index, Head(functions), status), Tail(functions), status)

\* the outer loop over status_mapping, from category k on
RECURSIVE AddCategories(_, _, _)
AddCategories(index, verification, k) ==
    IF k > Len(CategoryKeys) THEN index
    ELSE AddCategories(
             AddFunctions(index, verification[CategoryKeys[k]], status_mapping(CategoryKeys[k])),
             verification, k + 1)

\* A category that the report lacks reads as the empty list (line 68), so a
\* report is its three lists.
build_verification_lookup(verification) ==
    AddCategories([lookup |-> <<>>, by_name |-> <<>>, raised |-> FALSE], verification, 1)

----------------------------------------------------------------------------
(* find_verification_status *)

\* Strategy 1: the triple key
ExactTriple(display_name, normalized_path, start_line, lk) ==
    IF start_line # NoLine /\ DictHas(lk, <<display_name, normalized_path, start_line>>)
    THEN DictGet(lk, <<display_name, normalized_path, start_line>>)
    ELSE NoStatus

\* Strategy 2: the pair key
ExactPair(display_name, normalized_path, lk) ==
    IF DictHas(lk, <<display_name, normalized_path>>)
    THEN DictGet(lk, <<display_name, normalized_path>>)
    ELSE NoStatus

\* the partial-path test without the comparison of the names
FuzzyAcceptsAnyName(item, display_name, normalized_path, start_line) ==
    LET lpath == item.key[2]
        rest == From(item.key, 3)
    IN  /\ Contains(normalized_path, lpath) \/ Contains(lpath, normalized_path)
        /\ IF Len(rest) > 0 /\ start_line # NoLine
           THEN rest[1] = start_line
           ELSE Len(rest) = 0

\* the partial-path loop returns at this item: key is (name, lpath, *rest)
FuzzyAccepts(item, display_name, normalized_path, start_line) ==
    LET name == item.key[1]
        lpath == item.key[2]
        rest == From(item.key, 3)
    IN  /\ name = display_name
        /\ Contains(normalized_path, lpath) \/ Contains(lpath, normalized_path)
        /\ IF Len(rest) > 0 /\ start_line # NoLine
           THEN rest[1] = start_line
           ELSE Len(rest) = 0

\* the partial-path loop giving up at the first item of the name and path
\* that it does not accept
PartialPathFirstOnly(display_name, normalized_path, start_line, lk) ==
    LET near == {i \in 1..Len(lk) :
                    /\ lk[i].key[1] = display_name
                    /\ \/ Contains(normalized_path, lk[i].key[2])
                       \/ Contains(lk[i].key[2], normalized_path)}
        first == CHOOSE i \in near : \A j \in near : i <= j
    IN  IF near # {} /\ FuzzyAccepts(lk[first], display_name, normalized_path, start_line)
        THEN lk[first].val
        ELSE NoStatus

\* the partial-path loop over lookup.items()
PartialPath(display_name, normalized_path, start_line, lk) ==
    LET hits == {i \in 1..Len(lk) : FuzzyAccepts(lk[i], display_name, normalized_path, start_line)}
    IN  IF hits # {} THEN lk[CHOOSE i \in hits : \A j \in hits : i <= j].val ELSE NoStatus

\* one iteration of the loop over the paths without the test that skips an
\* empty or absent path
TryPathUnguarded(display_name, p, start_line, lk) ==
    LET normalized_path == normalize_path(IF p = None THEN <<>> ELSE p)
        s1 == ExactTriple(display_name, normalized_path, start_line, lk)
        s2 == ExactPair(display_name, normalized_path, lk)
    IN  IF s1 # NoStatus THEN s1
        ELSE IF s2 # NoStatus THEN s2
        ELSE PartialPath(display_name, normalized_path, start_line, lk)

\* one iteration of the loop over [relative_path, full_path]
TryPath(display_name, p, start_line, lk) ==
    IF ~Truthy(p) THEN NoStatus
    ELSE LET normalized_path == normalize_path(p)
             s1 == ExactTriple(display_name, normalized_path, start_line, lk)
             s2 == ExactPair(display_name, normalized_path, lk)
         IN  IF s1 # NoStatus THEN s1
             ELSE IF s2 # NoStatus THEN s2
             ELSE PartialPath(display_name, normalized_path, start_line, lk)

\* the fallback taking the first record of the name, agreed or not
NameOnlyFirst(display_name, bn) ==
    IF DictHas(bn, display_name) THEN DictGet(bn, display_name)[1].status ELSE NoStatus

\* the fallback on the name alone
NameOnly(display_name, bn) ==
    IF DictHas(bn, display_name)
    THEN LET matches == DictGet(bn, display_name)
             statuses == {matches[i].status : i \in 1..Len(matches)}
         IN  IF Cardinality(statuses) = 1 THEN matches[1].status
             ELSE IF Len(matches) = 1 THEN matches[1].status
             ELSE NoStatus
    ELSE NoStatus

find_verification_status(node, lk, bn) ==
    LET display_name == Get(node.display_name, <<>>)
        full_path == Get(node.full_path, <<>>)
        relative_path == Get(node.relative_path, <<>>)
        r1 == TryPath(display_name, relative_path, node.start_line, lk)
        r2 == TryPath(display_name, full_path, node.start_line, lk)
    IN  IF r1 # NoStatus THEN r1
        ELSE IF r2 # NoStatus THEN r2
        ELSE NameOnly(display_name, bn)

\* which strategy returns in one iteration of the loop over the paths
StrategyOnPath(display_name, p, start_line, lk) ==
    IF ~Truthy(p) THEN "none"
    ELSE LET normalized_path == normalize_path(p)
         IN  IF ExactTriple(display_name, normalized_path, start_line, lk) # NoStatus
             THEN "triple"
             ELSE IF ExactPair(display_name, normalized_path, lk) # NoStatus
             THEN "pair"
             ELSE IF PartialPath(display_name, normalized_path, start_line, lk) # NoStatus
             THEN "fuzzy"
             ELSE "none"

\* which return statement of find_verification_status supplies the result
StrategyUsed(node, lk, bn) ==
    LET display_name == Get(node.display_name, <<>>)
        full_path == Get(node.full_path, <<>>)
        relative_path == Get(node.relative_path, <<>>)
        t1 == StrategyOnPath(display_name, relative_path, node.start_line, lk)
        t2 == StrategyOnPath(display_name, full_path, node.start_line, lk)
    IN  IF t1 # "none" THEN t1
        ELSE IF t2 # "none" THEN t2
        ELSE IF NameOnly(display_name, bn) # NoStatus THEN "name"
        ELSE "none"

----------------------------------------------------------------------------
(* process_graph *)

ZeroStats == [verified |-> 0, failed |-> 0, unverified |-> 0, unknown |-> 0]

\* the file at output_path before process_graph has written it
NotWritten == [written |-> FALSE, text |-> <<>>]

\* JSON values as written to a file: null, a string, a number, and the
\* place of a key that the object does not have
JsonNull == [kind |-> "null"]
JsonAbsent == [kind |-> "absent"]
JsonString(v) == [kind |-> "string", value |-> v]
JsonNumber(n) == [kind |-> "number", value |-> n]

\* a string field of a node, written and read back
DumpString(v) ==
    IF v = Missing THEN JsonAbsent ELSE IF v = None THEN JsonNull ELSE JsonString(v)
LoadString(j) ==
    IF j.kind = "absent" THEN Missing ELSE IF j.kind = "null" THEN None ELSE j.value

\* start_line, written and read back; a node that has no number there (null,
\* or no such key) has none after the round trip either
DumpLine(v) == IF v = NoLine THEN JsonNull ELSE JsonNumber(v[1])
LoadLine(j) == IF j.kind = "null" THEN NoLine ELSE <<j.value>>

\* verification_status, written and read back
DumpStatus(v) ==
    IF v = "absent" THEN JsonAbsent ELSE IF v = "null" THEN JsonNull ELSE JsonString(v)
LoadStatus(j) ==
    IF j.kind = "absent" THEN "absent" ELSE IF j.kind = "null" THEN "null" ELSE j.value

\* json.dump of the graph, node by node and field by field
json_dump(graph) ==
    [i \in DOMAIN graph |->
        [display_name |-> DumpString(graph[i].display_name),
         relative_path |-> DumpString(graph[i].relative_path),
         full_path |-> DumpString(graph[i].full_path),
         start_line |-> DumpLine(graph[i].start_line),
         verification_status |-> DumpStatus(graph[i].verification_status)]]

\* json.load of a written graph
json_load(text) ==
    [i \in DOMAIN text |->
        [display_name |-> LoadString(text[i].display_name),
         relative_path |-> LoadString(text[i].relative_path),
         full_path |-> LoadString(text[i].full_path),
         start_line |-> LoadLine(text[i].start_line),
         verification_status |-> LoadStatus(text[i].verification_status)]]

NormIdle == path = <<>> /\ once = None /\ twice = None /\ npc = "idle"

\* the state after both json.load calls, for a report and a graph
Loaded(verification, graph) ==
    /\ report = verification
    /\ nodes = graph
    /\ lookup = <<>> /\ by_name = <<>>
    /\ pc = "loaded"
    /\ pending = {}
    /\ stats = ZeroStats
    /\ output = NotWritten
    /\ NormIdle

\* lines 177-184: the index is built, the counters are created; an exception
\* of the builder leaves process_graph
BuildIndex ==
    /\ pc = "loaded"
    /\ LET index == build_verification_lookup(report)
       IN  IF index.raised
           THEN /\ pc' = "raised"
                /\ UNCHANGED <<lookup, by_name, pending>>
           ELSE /\ pc' = "resolving"
                /\ lookup' = index.lookup
                /\ by_name' = index.by_name
                /\ pending' = 1..Len(nodes)
    /\ stats' = ZeroStats
    /\ UNCHANGED <<report, nodes, output>>
    /\ UNCHANGED normVars

\* the loop body without the else branch: an unmatched node is not counted
VisitNodeUncounted(i) ==
    LET status == find_verification_status(nodes[i], lookup, by_name)
    IN  IF status # NoStatus
        THEN /\ nodes' = [nodes EXCEPT ![i].verification_status = status]
             /\ stats' = [stats EXCEPT ![status] = @ + 1]
        ELSE /\ nodes' = nodes
             /\ stats' = stats

\* the loop body taking a node that has the field for one an earlier pass
\* left stale: it drops the field and resolves only nodes without it
VisitNodeSkipEnriched(i) ==
    LET status == find_verification_status(nodes[i], lookup, by_name)
    IN  IF nodes[i].verification_status # "absent"
        THEN /\ nodes' = [nodes EXCEPT ![i].verification_status = "absent"]
             /\ stats' = [stats EXCEPT !.unknown = @ + 1]
        ELSE IF status # NoStatus
        THEN /\ nodes' = [nodes EXCEPT ![i].verification_status = status]
             /\ stats' = [stats EXCEPT ![status] = @ + 1]
        ELSE /\ nodes' = nodes
             /\ stats' = [stats EXCEPT !.unknown = @ + 1]

\* lines 187-192 for the node at position i
VisitNode(i) ==
    LET status == find_verification_status(nodes[i], lookup, by_name)
    IN  IF status # NoStatus
        THEN /\ nodes' = [nodes EXCEPT ![i].verification_status = status]
             /\ stats' = [stats EXCEPT ![status] = @ + 1]
        ELSE /\ nodes' = nodes
             /\ stats' = [stats EXCEPT !.unknown = @ + 1]

\* the loop over the nodes with the resolved status remembered under the
\* node's name, for the nodes of that name that come later
ProcessNodeCaching ==
    /\ pc = "resolving"
    /\ \E i \in pending :
          LET status == find_verification_status(nodes[i], lookup, by_name)
              name == Get(nodes[i].display_name, <<>>)
          IN  /\ VisitNode(i)
              /\ pending' = pending \ {i}
              /\ by_name' = IF status # NoStatus
                            THEN DictSet(by_name, name,
                                     <<[path |-> <<>>, status |-> status, lines_start |-> NoLine]>>)
                            ELSE by_name
    /\ UNCHANGED <<report, lookup, pc, output>>
    /\ UNCHANGED normVars

\* One iteration of the loop over the nodes.  The code visits the nodes in
\* list order; the model lets any node not yet visited be next, so that the
\* list order is one of the schedules it covers.
ProcessNode ==
    /\ pc = "resolving"
    /\ \E i \in pending :
          /\ VisitNode(i)
          /\ pending' = pending \ {i}
    /\ UNCHANGED <<report, lookup, by_name, pc, output>>
    /\ UNCHANGED normVars

\* lines 195-207: the statistics are printed and the graph is written
WriteOutput ==
    /\ pc = "resolving"
    /\ pending = {}
    /\ pc' = "done"
    /\ output' = [written |-> TRUE, text |-> json_dump(nodes)]
    /\ UNCHANGED <<report, nodes, lookup, by_name, pending, stats>>
    /\ UNCHANGED normVars

\* process_graph called again, with the file it wrote as graph_path and the
\* same verification_path: lines 168-174 of the second call
Rerun ==
    /\ pc = "done"
    /\ nodes' = json_load(output.text)
    /\ lookup' = <<>> /\ by_name' = <<>>
    /\ pc' = "loaded"
    /\ pending' = {}
    /\ stats' = ZeroStats
    /\ UNCHANGED <<report, output>>
    /\ UNCHANGED normVars

Next == BuildIndex \/ ProcessNode \/ WriteOutput

----------------------------------------------------------------------------
(* Inputs of the pass *)

\* most records of a report
MaxRecords == 2

F == <<"f">>
G == <<"g">>

PathA == <<"a", "/", "src", "/", "x">>
PathAA == <<"a", "/", "a", "/", "src", "/", "x">>
PathLong == <<"a", "/", "src", "/", "x", "/", "y">>
PathOther == <<"b">>

\* a record of the report, as the builder reads it
Func(name, code_path, code_text, lines_start) ==
    [display_name |-> name, code_path |-> code_path, code_text |-> code_text,
     lines_start |-> lines_start]

\* a node of the graph, as the resolver and the pass read and write it
Node(name, relative_path, full_path, start_line, verification_status) ==
    [display_name |-> name, relative_path |-> relative_path, full_path |-> full_path,
     start_line |-> start_line, verification_status |-> verification_status]

\* Report records.  Of the name f: three at src/x (two lines, no code-text),
\* one below it at src/x/y, one at an unrelated path, one without code-path.
\* One without display-name (its name is ""), and two with a null field.
FuncPool ==
    {Func(F, PathA, "dict", <<1>>),
     Func(F, PathA, "dict", <<2>>),
     Func(F, PathA, "missing", NoLine),
     Func(F, PathLong, "dict", <<1>>),
     Func(F, PathOther, "dict", <<1>>),
     Func(F, Missing, "dict", NoLine),
     Func(Missing, PathA, "dict", <<1>>),
     Func(F, None, "dict", <<1>>),
     Func(F, PathA, "null", NoLine)}

\* Graph nodes of the name f, as loaded
NodePool ==
    [display_name : {F},
     relative_path : {Missing, PathAA, PathLong, PathOther},
     full_path : {None, PathLong},
     start_line : {NoLine, <<1>>},
     verification_status : {"absent"}]

RECURSIVE SeqsUpTo(_, _)
SeqsUpTo(S, n) ==
    IF n = 0 THEN {<<>>}
    ELSE LET shorter == SeqsUpTo(S, n - 1)
         IN  shorter \cup {Append(s, e) : s \in {t \in shorter : Len(t) = n - 1}, e \in S}

\* the reports of at most n records drawn from pool: a list of records cut
\* into the three category lists
Reports(pool, n) ==
    {[verified_functions |-> SubSeq(c[1], 1, c[2]),
      failed_functions |-> SubSeq(c[1], c[2] + 1, c[3]),
      unverified_functions |-> SubSeq(c[1], c[3] + 1, Len(c[1]))] :
        c \in {d \in SeqsUpTo(pool, n) \X (0..n) \X (0..n) :
                  d[2] <= d[3] /\ d[3] <= Len(d[1])}}

Init ==
    \E verification \in Reports(FuncPool, MaxRecords), node \in NodePool :
        Loaded(verification, <<node>>)

Spec == Init /\ [][Next]_vars

----------------------------------------------------------------------------
(* The report as the claims speak of it *)

\* the records of the report in processing order, each with its outcome
RECURSIVE Tagged(_, _)
Tagged(functions, status) ==
    IF Len(functions) = 0 THEN <<>>
    ELSE <<[func |-> Head(functions), status |-> status]>> \o Tagged(Tail(functions), status)

Records ==
    Tagged(report.verified_functions, "verified")
        \o Tagged(report.failed_functions, "failed")
        \o Tagged(report.unverified_functions, "unverified")

RecName(r) == Get(r.func.display_name, <<>>)
RecPath(r) == normalize_path(Get(r.func.code_path, <<>>))
RecLine(r) == LinesStart(r.func)

\* what the loop body computes from each record, in processing order
Facts ==
    LET recs == Records
    IN  [k \in 1..Len(recs) |->
            [name |-> RecName(recs[k]), path |-> RecPath(recs[k]),
             line |-> RecLine(recs[k]), status |-> recs[k].status]]

Built == pc \in {"resolving", "done"}

NodeName(n) == Get(n.display_name, <<>>)

\* the outcomes of the records that carry the node's name
OutcomesOfName(name) == {Records[k].status : k \in {j \in 1..Len(Records) : RecName(Records[j]) = name}}

Resolved(i) == find_verification_status(nodes[i], lookup, by_name)

\* no triple, pair or fuzzy match on either candidate path
PathStrategiesFail(n) ==
    /\ TryPath(NodeName(n), Get(n.relative_path, <<>>), n.start_line, lookup) = NoStatus
    /\ TryPath(NodeName(n), Get(n.full_path, <<>>), n.start_line, lookup) = NoStatus

----------------------------------------------------------------------------
(* Claims on the resolver and the index, over one-node graphs *)

\* C1: a node with a start_line whose triple (display_name, normalised path,
\* start_line), for its relative_path or its full_path, is a key of the index
\* resolves to the outcome stored under that triple.
C1_ExactPrecedence ==
    Built =>
        \A i \in DOMAIN nodes : \A p \in {nodes[i].relative_path, nodes[i].full_path} :
            LET key == <<NodeName(nodes[i]), normalize_path(Get(p, <<>>)), nodes[i].start_line>>
            IN  (Truthy(Get(p, <<>>)) /\ nodes[i].start_line # NoLine /\ DictHas(lookup, key))
                    => Resolved(i) = DictGet(lookup, key)

\* C2: when no path strategy succeeds, the node resolves to the outcome shared
\* by all records of its name, and to none when they carry several outcomes.
C2_NameOnlyFallback ==
    Built =>
        \A i \in DOMAIN nodes :
            LET outs == OutcomesOfName(NodeName(nodes[i]))
            IN  PathStrategiesFail(nodes[i]) =>
                    /\ Cardinality(outs) = 1 => Resolved(i) \in outs
                    /\ Cardinality(outs) >= 2 => Resolved(i) = NoStatus

\* two records of the node's name agree on the outcome, sit at different
\* paths that both miss the node, and the node got their outcome
C2_Witness ==
    /\ pc = "done"
    /\ Len(nodes) = 1
    /\ Truthy(Get(nodes[1].relative_path, <<>>))
    /\ PathStrategiesFail(nodes[1])
    /\ \E j, k \in 1..Len(Records) :
          /\ j # k
          /\ RecName(Records[j]) = NodeName(nodes[1])
          /\ RecName(Records[k]) = NodeName(nodes[1])
          /\ RecPath(Records[j]) # RecPath(Records[k])
    /\ OutcomesOfName(NodeName(nodes[1])) = {"verified"}
    /\ nodes[1].verification_status = "verified"

\* C3: the pair key (name, normalised path) holds the outcome of the first
\* record, in category order, that has this name and path.
C3_PairKeyFirstWriter ==
    Built =>
        LET f == Facts IN
        \A k \in 1..Len(f) :
            LET key == <<f[k].name, f[k].path>>
                first == CHOOSE j \in 1..k :
                             /\ <<f[j].name, f[j].path>> = key
                             /\ \A h \in 1..(j - 1) : <<f[h].name, f[h].path>> # key
            IN  DictHas(lookup, key) /\ DictGet(lookup, key) = f[first].status

\* two records collide on the pair key with different outcomes
C3_Witness ==
    /\ Built
    /\ \E j, k \in 1..Len(Records) :
          /\ j < k
          /\ RecName(Records[j]) = RecName(Records[k])
          /\ RecPath(Records[j]) = RecPath(Records[k])
          /\ Records[j].status # Records[k].status
          /\ DictGet(lookup, <<RecName(Records[j]), RecPath(Records[j])>>) = Records[j].status

\* C6: after the pass a node carries verification_status exactly when the
\* resolver found a match for it in this pass, the field is then that outcome,
\* and it is never null.
C6_FieldIffMatch ==
    pc = "done" =>
        \A i \in DOMAIN nodes :
            /\ nodes[i].verification_status # "absent" <=> Resolved(i) # NoStatus
            /\ Resolved(i) # NoStatus => nodes[i].verification_status = Resolved(i)
            /\ nodes[i].verification_status # "null"

NameInReport(name) == \E k \in 1..Len(Records) : RecName(Records[k]) = name

\* C7: a node whose display_name is the name of no report record resolves to
\* none; its visit changes no node and adds exactly one to the unknown count.
C7_UnknownName ==
    [][\A i \in pending \ pending' :
          ~NameInReport(NodeName(nodes[i])) =>
              /\ Resolved(i) = NoStatus
              /\ nodes' = nodes
              /\ stats' = [stats EXCEPT !.unknown = @ + 1]]_vars

\* a node with paths and a line, a report that holds records at the node's
\* own path under another name only, and the node counted as unknown
C7_Witness ==
    /\ pc = "done"
    /\ Len(nodes) = 1
    /\ Len(Records) > 0
    /\ ~NameInReport(NodeName(nodes[1]))
    /\ \E k \in 1..Len(Records) :
          RecPath(Records[k]) = normalize_path(Get(nodes[1].relative_path, <<>>))
    /\ nodes[1].start_line # NoLine
    /\ nodes[1].verification_status = "absent"
    /\ stats = [ZeroStats EXCEPT !.unknown = 1]

\* C9: the builder and the resolver never raise, whatever fields of a record
\* or of a node are missing or null.
C9_NeverRaises == pc # "raised"

----------------------------------------------------------------------------
(* One record and one node that differ in the directories before src *)

\* directory prefixes without a src segment, with and without the scheme
Prefixes ==
    {<<"a">>, <<"a", "/", "a">>, <<"b">>, <<"b", "/", "a">>,
     <<"file:", "/", "/", "a">>, <<"file:", "/", "/", "/", "b", "/", "a">>}

\* what follows src/ in both paths
Rests ==
    {<<"x">>, <<"x", "/", "y">>, <<"x", "/", "src", "/", "y">>, <<"src", "/", "x">>}

UnderSrc(prefix, rest) == prefix \o SrcAnchor \o rest

E2EInit ==
    \E name \in {F, G}, p1 \in Prefixes, p2 \in Prefixes, r \in Rests,
       l \in {1, 2}, k \in 1..Len(CategoryKeys), fp \in {Missing, PathOther} :
        /\ p1 # p2
        /\ Loaded(
              [c \in {CategoryKeys[j] : j \in 1..Len(CategoryKeys)} |->
                  IF c = CategoryKeys[k]
                  THEN <<Func(name, UnderSrc(p1, r), "dict", <<l>>)>>
                  ELSE <<>>],
              <<Node(name, UnderSrc(p2, r), fp, <<l>>, "absent")>>)

SpecE2E == E2EInit /\ [][Next]_vars

\* C8: a single record at P/src/r and a node of the same name and line at
\* P'/src/r, P # P': the pass gives the node the record's outcome, found by
\* the triple key on the normalised paths.
C8_PrefixReconciled ==
    pc = "done" =>
        /\ nodes[1].verification_status = Records[1].status
        /\ ExactTriple(NodeName(nodes[1]), normalize_path(nodes[1].relative_path),
                       nodes[1].start_line, lookup) = Records[1].status

\* the pass is over, the two paths differ as written, and the node has the
\* outcome of a record of the failed category
C8_Witness ==
    /\ pc = "done"
    /\ Len(Records) = 1 /\ Len(nodes) = 1
    /\ Records[1].func.code_path # nodes[1].relative_path
    /\ RecPath(Records[1]) = normalize_path(nodes[1].relative_path)
    /\ Records[1].status = "failed"
    /\ nodes[1].verification_status = "failed"

----------------------------------------------------------------------------
(* Graphs of several nodes, visited in any order *)

\* most nodes of a graph
MaxNodes == 2

\* two records of the name f, at an unrelated path and at src/x, and one of
\* the name g
GraphFuncPool ==
    {Func(F, PathOther, "missing", NoLine),
     Func(F, PathA, "dict", <<1>>),
     Func(G, PathA, "dict", <<1>>)}

\* nodes as loaded, one of them with the field left by an earlier pass
GraphNodePool ==
    {Node(F, PathOther, None, NoLine, "absent"),
     Node(F, PathAA, None, <<1>>, "absent"),
     Node(F, Missing, None, NoLine, "failed"),
     Node(G, Missing, PathLong, NoLine, "absent")}

GraphInit ==
    \E verification \in Reports(GraphFuncPool, MaxRecords),
       graph \in SeqsUpTo(GraphNodePool, MaxNodes) :
        Loaded(verification, graph)

SpecGraph == GraphInit /\ [][Next]_vars

Visited == DOMAIN nodes \ pending

\* what the resolver returns for each node against an index built afresh
FreshResolved ==
    LET index == build_verification_lookup(report)
    IN  [i \in DOMAIN nodes |->
            find_verification_status(nodes[i], index.lookup, index.by_name)]

\* C10: whatever the order of the visits, a visited node that resolves has the
\* status the resolver gives it against the index as built, and the counters
\* are the numbers of visited nodes of each status: both are functions of the
\* report, the graph and the set of visited nodes, not of the schedule.
C10_OrderIndependent ==
    Built =>
        LET fresh == FreshResolved
        IN  /\ \A i \in Visited :
                  fresh[i] # NoStatus => nodes[i].verification_status = fresh[i]
            /\ \A s \in Statuses : stats[s] = Cardinality({i \in Visited : fresh[i] = s})
            /\ stats.unknown = Cardinality({i \in Visited : fresh[i] = NoStatus})

\* two nodes of one name, the first resolved through its path and the second,
\* which only the name could match, left unknown because the name is ambiguous
C10_Witness ==
    /\ pc = "done"
    /\ Len(nodes) = 2
    /\ NodeName(nodes[1]) = NodeName(nodes[2])
    /\ FreshResolved[1] = "verified"
    /\ FreshResolved[2] = NoStatus
    /\ nodes[1].verification_status = "verified"
    /\ nodes[2].verification_status = "absent"
    /\ stats = [ZeroStats EXCEPT !.verified = 1, !.unknown = 1]

\* a node without the one field the pass may write
Frame(n) == [n EXCEPT !.verification_status = "absent"]

\* C11: once the index is built no step changes lookup or by_name, and the
\* only thing a step changes in the graph is the verification_status of a
\* node: the number of nodes, their order and their other fields stay.
C11_ResolverPure ==
    [][Built =>
          /\ lookup' = lookup
          /\ by_name' = by_name
          /\ DOMAIN nodes' = DOMAIN nodes
          /\ \A i \in DOMAIN nodes : Frame(nodes'[i]) = Frame(nodes[i])]_vars

\* the pass is over, both nodes of a graph got a status written, and the
\* index still holds the keys of the records
C11_Witness ==
    /\ pc = "done"
    /\ Len(nodes) = 2
    /\ nodes[1].verification_status \in Statuses
    /\ nodes[2].verification_status = "unverified"
    /\ Len(lookup) >= 2
    /\ Len(by_name) >= 1

Sum(st) == st.verified + st.failed + st.unverified + st.unknown

\* C12: after k visits the four counters add up to k, each counter is the
\* number of visited nodes that resolve to its status (unknown: to none), and
\* at the end they add up to the number of nodes.
C12_StatsPartition ==
    Built =>
        LET res == [i \in Visited |-> Resolved(i)] IN
        /\ Sum(stats) = Cardinality(Visited)
        /\ \A s \in Statuses : stats[s] = Cardinality({i \in Visited : res[i] = s})
        /\ stats.unknown = Cardinality({i \in Visited : res[i] = NoStatus})
        /\ pc = "done" => Sum(stats) = Len(nodes)

\* half way through a graph of two nodes, the one visited node unmatched
C12_Witness ==
    /\ pc = "resolving"
    /\ Len(nodes) = 2
    /\ Cardinality(Visited) = 1
    /\ stats = [ZeroStats EXCEPT !.unknown = 1]
    /\ Len(Records) > 0

----------------------------------------------------------------------------
(* A further claim on the normaliser, under SpecNorm *)

StartsWith(s, pat) == OccursAt(s, pat, 1)

\* C14: a path that does not start with file:// and has no segment equal to
\* src is returned unchanged.
C14_NoAnchorPassthrough ==
    (npc # "start" /\ ~StartsWith(path, Scheme) /\ ~HasSrcSegment(path)) => once = path

----------------------------------------------------------------------------
(* Claims on the index and on the resolver's strategies, one-node graphs *)

\* the by_name entry a record leaves, from the record's facts
Entry(x) == [path |-> x.path, status |-> x.status, lines_start |-> x.line]

\* the entries of the records of one name, in processing order
RECURSIVE EntriesOf(_, _)
EntriesOf(facts, name) ==
    IF Len(facts) = 0 THEN <<>>
    ELSE (IF Head(facts).name = name THEN <<Entry(Head(facts))>> ELSE <<>>)
             \o EntriesOf(Tail(facts), name)

\* C13: once the index is built, the triple key and the pair key of every
\* record are keys of lookup, and by_name holds, under each name of the report
\* and under no other, one entry per record of that name in processing order.
C13_IndexComplete ==
    Built =>
        LET f == Facts IN
        /\ \A k \in 1..Len(f) :
              /\ DictHas(lookup, <<f[k].name, f[k].path, f[k].line>>)
              /\ DictHas(lookup, <<f[k].name, f[k].path>>)
              /\ DictHas(by_name, f[k].name)
        /\ \A h \in 1..Len(by_name) :
              /\ \E k \in 1..Len(f) : f[k].name = by_name[h].key
              /\ by_name[h].val = EntriesOf(f, by_name[h].key)

\* two records that agree on every field: one triple key, one pair key, and
\* two equal entries in the list of their name
C13_Witness ==
    /\ Built
    /\ Len(Records) = 2
    /\ Records[1] = Records[2]
    /\ Len(lookup) = 2
    /\ Len(DictGet(by_name, RecName(Records[1]))) = 2

\* the candidate paths of a node that the loop does not skip
Candidates(n) ==
    {p \in {Get(n.relative_path, <<>>), Get(n.full_path, <<>>)} : Truthy(p)}

\* a strategy succeeds for a node on one of its candidate paths
Succeeds(strategy, n) ==
    \E p \in Candidates(n) :
        LET np == normalize_path(p)
        IN  CASE strategy = "triple" -> ExactTriple(NodeName(n), np, n.start_line, lookup) # NoStatus
              [] strategy = "pair"   -> ExactPair(NodeName(n), np, lookup) # NoStatus
              [] strategy = "fuzzy"  -> PartialPath(NodeName(n), np, n.start_line, lookup) # NoStatus

\* the strategies that come before a given one
Earlier(strategy) ==
    CASE strategy = "triple" -> {}
      [] strategy = "pair"   -> {"triple"}
      [] strategy = "fuzzy"  -> {"triple", "pair"}
      [] strategy = "name"   -> {"triple", "pair", "fuzzy"}
      [] strategy = "none"   -> {"triple", "pair", "fuzzy"}

\* C15: the strategies are tried in the order triple, pair, fuzzy, name-only:
\* the strategy that supplies a node's status is never one that comes after
\* a strategy that succeeds on the node's relative_path or on its full_path.
C15_StrategyOrder ==
    Built =>
        \A i \in DOMAIN nodes :
            \A e \in Earlier(StrategyUsed(nodes[i], lookup, by_name)) : ~Succeeds(e, nodes[i])

\* an entry of lookup with the name of node n and a path that contains, or is
\* contained in, the normalised path np
Related(item, n, np) ==
    /\ item.key[1] = NodeName(n)
    /\ Contains(np, item.key[2]) \/ Contains(item.key[2], np)

\* the entry's key has a line component
CarriesLine(item) == Len(item.key) = 3

\* what the rule lets the scan accept, and what it says the scan accepts
MayAccept(item, n) ==
    CarriesLine(item) => (n.start_line # NoLine => item.key[3] = n.start_line)
MustAccept(item, n) ==
    CarriesLine(item) => (n.start_line # NoLine /\ item.key[3] = n.start_line)

\* neither exact strategy succeeds for node n on the normalised path np
ExactMiss(n, np) ==
    /\ ExactTriple(NodeName(n), np, n.start_line, lookup) = NoStatus
    /\ ExactPair(NodeName(n), np, lookup) = NoStatus

\* C16: where the two exact strategies miss on a candidate path, the scan
\* succeeds if some entry of the node's name and a substring-related path has
\* no line or the node's line; its result is the value of an entry of that
\* kind that no such entry precedes (entries with another line are passed
\* over); and that result is the node's status unless the other path came first.
C16_FuzzyRule ==
    Built =>
        \A i \in DOMAIN nodes : \A p \in Candidates(nodes[i]) :
            LET n == nodes[i]
                np == normalize_path(p)
                r == TryPath(NodeName(n), p, n.start_line, lookup)
                first == TryPath(NodeName(n), Get(n.relative_path, <<>>), n.start_line, lookup)
            IN  ExactMiss(n, np) =>
                    /\ (\E j \in 1..Len(lookup) :
                            Related(lookup[j], n, np) /\ MustAccept(lookup[j], n))
                           => r # NoStatus
                    /\ r # NoStatus =>
                           \E j \in 1..Len(lookup) :
                               /\ Related(lookup[j], n, np)
                               /\ MayAccept(lookup[j], n)
                               /\ lookup[j].val = r
                               /\ \A h \in 1..(j - 1) :
                                      Related(lookup[h], n, np) => ~MustAccept(lookup[h], n)
                    /\ (r # NoStatus /\ (p = Get(n.relative_path, <<>>) \/ first = NoStatus))
                           => Resolved(i) = r

\* the scan passes over an entry with another line and the node gets the
\* status of a later entry of the index
C16_Witness ==
    /\ pc = "done"
    /\ Len(nodes) = 1
    /\ nodes[1].start_line # NoLine
    /\ StrategyUsed(nodes[1], lookup, by_name) = "fuzzy"
    /\ LET n == nodes[1]
           np == normalize_path(Get(n.relative_path, <<>>))
       IN  /\ Truthy(Get(n.relative_path, <<>>))
           /\ \E h, j \in 1..Len(lookup) :
                 /\ h < j
                 /\ Related(lookup[h], n, np) /\ ~MayAccept(lookup[h], n)
                 /\ Related(lookup[j], n, np) /\ MustAccept(lookup[j], n)
                 /\ n.verification_status = lookup[j].val

\* C17: a node whose relative_path and full_path are both empty or absent is
\* resolved with no path strategy and without an error: its status is the
\* outcome all records of its name share, and none when they carry several
\* outcomes or there is no such record.
C17_AbsentPaths ==
    Built =>
        \A i \in DOMAIN nodes :
            LET n == nodes[i]
                outs == OutcomesOfName(NodeName(n))
            IN  Candidates(n) = {} =>
                    /\ StrategyUsed(n, lookup, by_name) \in {"name", "none"}
                    /\ Resolved(i) = NameOnly(NodeName(n), by_name)
                    /\ Cardinality(outs) = 1 => Resolved(i) \in outs
                    /\ Cardinality(outs) # 1 => Resolved(i) = NoStatus
                    /\ pc = "done" /\ Resolved(i) # NoStatus
                           => n.verification_status = Resolved(i)

\* a node without paths and with a start_line, two records of its name at
\* different places with one outcome: the node got that outcome
C17_Witness ==
    /\ pc = "done"
    /\ Len(nodes) = 1
    /\ nodes[1].relative_path = Missing
    /\ nodes[1].full_path = None
    /\ nodes[1].start_line # NoLine
    /\ Len(Records) = 2
    /\ RecPath(Records[1]) # RecPath(Records[2])
    /\ OutcomesOfName(NodeName(nodes[1])) = {"failed"}
    /\ nodes[1].verification_status = "failed"
    /\ stats = [ZeroStats EXCEPT !.failed = 1]

\* C18: a status the resolver returns is one of verified, failed, unverified
\* and is the outcome of a record whose display-name is the node's; the
\* outcome of a record of another name is never returned for it.
C18_Provenance ==
    Built =>
        \A i \in DOMAIN nodes :
            LET r == Resolved(i)
                outs == OutcomesOfName(NodeName(nodes[i]))
            IN  r # NoStatus =>
                    /\ r \in Statuses
                    /\ r \in outs
                    /\ pc = "done" => nodes[i].verification_status \in outs

\* the report holds a record of the node's name and, at a path related to the
\* node's, a record of another name with another outcome; the node got the
\* outcome of the record of its name
C18_Witness ==
    /\ pc = "done"
    /\ Len(nodes) = 1
    /\ Len(Records) = 2
    /\ \E j, k \in 1..2 :
          /\ RecName(Records[j]) = NodeName(nodes[1])
          /\ RecName(Records[k]) # NodeName(nodes[1])
          /\ Records[k].status # Records[j].status
          /\ RecPath(Records[k]) \in {normalize_path(p) : p \in Candidates(nodes[1])}
          /\ nodes[1].verification_status = Records[j].status

\* C19: when the fuzzy strategy supplies the status of a node that has a
\* start_line, the status is the outcome of a record of the node's name, with
\* a path that contains or is contained in the node's, whose lines_start is
\* the node's start_line or absent; a record with another line never
\* supplies it.
C19_FuzzyLineConsistent ==
    Built =>
        \A i \in DOMAIN nodes :
            LET n == nodes[i] IN
            (n.start_line # NoLine /\ StrategyUsed(n, lookup, by_name) = "fuzzy") =>
                \E k \in 1..Len(Records) : \E p \in Candidates(n) :
                    /\ RecName(Records[k]) = NodeName(n)
                    /\ \/ Contains(normalize_path(p), RecPath(Records[k]))
                       \/ Contains(RecPath(Records[k]), normalize_path(p))
                    /\ RecLine(Records[k]) \in {n.start_line, NoLine}
                    /\ Records[k].status = Resolved(i)

\* the keys of a record, from the record's facts
TripleKey(x) == <<x.name, x.path, x.line>>
PairKey(x) == <<x.name, x.path>>

\* the last record, in processing order, with the triple key of record k
LastOfTriple(f, k) ==
    CHOOSE j \in k..Len(f) :
        /\ TripleKey(f[j]) = TripleKey(f[k])
        /\ \A h \in (j + 1)..Len(f) : TripleKey(f[h]) # TripleKey(f[k])

\* records j and k collide: one triple key, two outcomes
Collide(f, j, k) ==
    /\ j < k
    /\ TripleKey(f[j]) = TripleKey(f[k])
    /\ f[j].status # f[k].status

\* the path the loop over the paths looks at first
FirstPath(n) ==
    IF Truthy(Get(n.relative_path, <<>>)) THEN Get(n.relative_path, <<>>)
    ELSE Get(n.full_path, <<>>)

\* C20: the triple key of a record holds the outcome of the last record, in
\* category order, with that triple.  Where records collide on a triple with
\* different outcomes, the pair key holds another outcome than the triple
\* key, and of two nodes of that name at that path the one with the records'
\* line gets the triple's outcome and the one without start_line the pair's.
C20_TripleCollision ==
    Built =>
        LET f == Facts IN
        /\ \A k \in 1..Len(f) :
              DictGet(lookup, TripleKey(f[k])) = f[LastOfTriple(f, k)].status
        /\ \A j, k \in 1..Len(f) :
              Collide(f, j, k) =>
                  LET triple == DictGet(lookup, TripleKey(f[k]))
                      pair == DictGet(lookup, PairKey(f[k]))
                  IN
                  /\ pair # triple
                  /\ \A i \in DOMAIN nodes :
                        LET n == nodes[i]
                            withLine == find_verification_status(
                                            [n EXCEPT !.start_line = f[k].line], lookup, by_name)
                            without == find_verification_status(
                                            [n EXCEPT !.start_line = NoLine], lookup, by_name)
                        IN  ( /\ NodeName(n) = f[k].name
                              /\ Truthy(FirstPath(n))
                              /\ normalize_path(FirstPath(n)) = f[k].path
                              /\ f[k].line # NoLine )
                            => /\ withLine = triple
                               /\ without = pair
                               /\ (pc = "done" /\ n.start_line = f[k].line)
                                      => n.verification_status = triple
                               /\ (pc = "done" /\ n.start_line = NoLine)
                                      => n.verification_status = pair

\* two records of one name, path and line, verified and failed, and a node
\* of that name, path and line: the node is failed, the pair key verified
C20_Witness ==
    /\ pc = "done"
    /\ Len(nodes) = 1
    /\ Len(Records) = 2
    /\ Collide(Facts, 1, 2)
    /\ Records[1].status = "verified"
    /\ Records[2].status = "failed"
    /\ NodeName(nodes[1]) = RecName(Records[1])
    /\ Truthy(FirstPath(nodes[1]))
    /\ normalize_path(FirstPath(nodes[1])) = RecPath(Records[1])
    /\ nodes[1].start_line = RecLine(Records[1])
    /\ nodes[1].start_line # NoLine
    /\ nodes[1].verification_status = "failed"
    /\ DictGet(lookup, PairKey(Facts[1])) = "verified"

----------------------------------------------------------------------------
(* The pass run again on its own output *)

NextTwice == Next \/ Rerun

\* graphs and reports as in SpecGraph; after a pass has written its output
\* process_graph may be called on it again
SpecTwice == GraphInit /\ [][NextTwice]_vars

\* C21: a pass that runs on the graph an earlier pass wrote, with the same
\* report, writes that graph again: the write of the later pass leaves the
\* output file as it was.
C21_PassIdempotent ==
    [][(output.written /\ pc = "resolving" /\ pc' = "done") => output'.text = output.text]_vars

\* a second pass over two nodes is about to write: it has visited both, the
\* first carries a status the passes resolved, the second, which no record
\* matches, the field it came with, and the graph is the one the file holds
C21_Witness ==
    /\ output.written
    /\ pc = "resolving"
    /\ pending = {}
    /\ Len(nodes) = 2
    /\ Len(Records) > 0
    /\ Resolved(1) # NoStatus
    /\ nodes[1].verification_status = Resolved(1)
    /\ Resolved(2) = NoStatus
    /\ nodes[2].verification_status = "failed"
    /\ Sum(stats) = 2
    /\ json_dump(nodes) = output.text

====
